---- MODULE Spec2Model ----
(***************************************************************************)
(* A model of the Pokemon scrape -> transform -> load pipeline:            *)
(*   src/src/components/data_processor.py   DataProcessor                  *)
(*   src/src/components/data_scraper.py     PokemonScraper                 *)
(*   src/src/pipelines/stage_01_data_extraction.py  DataExtractionPipeline *)
(*   src/02_ETL/pokemons_data_etl.py        the legacy ETL script          *)
(*                                                                         *)
(* Text on which the code works character by character (the types field,   *)
(* the synthetic identifier) is a sequence of one-character strings.       *)
(* A DataFrame is a sequence of records, one record per row, in row order. *)
(* pandas semantics are those of pandas 2.x, the version the code was      *)
(* written for (a missing value becomes the text "nan" under astype(str)). *)
(***************************************************************************)
EXTENDS Integers, Sequences, FiniteSets, TLC

(***************************************************************************)
(* Bounds of the model                                                     *)
(***************************************************************************)
\* most records in the scraped file
MaxRows == 2
\* most runs of load_processed_tables in one behaviour
MaxRuns == 2
\* most rows of the page
MaxPage == 2
\* most calls of scrape_data in one behaviour
MaxCalls == 2

(***************************************************************************)
(* Text helpers                                                            *)
(***************************************************************************)
DigitChar == <<"0", "1", "2", "3", "4", "5", "6", "7", "8", "9">>

\* str(n) of a non-negative integer: its decimal digits
RECURSIVE IntToStr(_)
IntToStr(n) ==
    IF n < 10 THEN <<DigitChar[n + 1]>>
    ELSE IntToStr(n \div 10) \o <<DigitChar[(n % 10) + 1]>>

\* the characters str.strip() removes
Whitespace == {" "}

\* str.split(sep) of Python: the pieces between the separators, always at
\* least one piece ("" splits into [""])
RECURSIVE SplitFrom(_, _, _, _)
SplitFrom(s, sep, i, cur) ==
    IF i > Len(s) THEN <<cur>>
    ELSE IF s[i] = sep THEN <<cur>> \o SplitFrom(s, sep, i + 1, <<>>)
    ELSE SplitFrom(s, sep, i + 1, Append(cur, s[i]))

StrSplit(s, sep) == SplitFrom(s, sep, 1, <<>>)

RECURSIVE LStrip(_)
LStrip(s) ==
    IF s # <<>> /\ Head(s) \in Whitespace THEN LStrip(Tail(s)) ELSE s

RECURSIVE RStrip(_)
RStrip(s) ==
    IF s # <<>> /\ s[Len(s)] \in Whitespace
    THEN RStrip(SubSeq(s, 1, Len(s) - 1)) ELSE s

\* str.strip()
StrStrip(s) == RStrip(LStrip(s))

(***************************************************************************)
(* Cells of an object column: a text, or the missing value NaN             *)
(***************************************************************************)
StrCell(s) == [kind |-> "str", s |-> s]
NaN == [kind |-> "nan", s |-> <<>>]

\* the field texts pandas.read_csv reads as the missing value
NAValues == {<<>>, <<"n", "a", "n">>, <<"N", "A">>}

\* one text field read by read_csv
ReadField(text) == IF text \in NAValues THEN NaN ELSE StrCell(text)

\* astype(str) of one cell: str(nan) is the text "nan"
AsTypeStr(c) == IF c.kind = "nan" THEN StrCell(<<"n", "a", "n">>) ELSE c

\* Series.str.split(","): the missing value stays missing (one cell), a text
\* becomes the list of its pieces
CellSplit(c) ==
    IF c.kind = "nan" THEN <<NaN>>
    ELSE LET pieces == StrSplit(c.s, ",")
         IN  [j \in 1..Len(pieces) |-> StrCell(pieces[j])]

\* Series.str.strip() of one cell
CellStrip(c) == IF c.kind = "nan" THEN NaN ELSE StrCell(StrStrip(c.s))

(***************************************************************************)
(* Sequence helpers                                                        *)
(***************************************************************************)
RECURSIVE Flatten(_)
Flatten(ss) == IF ss = <<>> THEN <<>> ELSE Head(ss) \o Flatten(Tail(ss))

Range(s) == {s[i] : i \in 1..Len(s)}

RECURSIVE SeqMax(_)
SeqMax(s) ==
    IF Len(s) = 1 THEN s[1]
    ELSE LET m == SeqMax(Tail(s)) IN IF s[1] >= m THEN s[1] ELSE m

\* DataFrame.drop_duplicates(): the first occurrence of every row, in order
RECURSIVE DropDuplicatesFrom(_, _)
DropDuplicatesFrom(s, seen) ==
    IF s = <<>> THEN <<>>
    ELSE IF Head(s) \in seen THEN DropDuplicatesFrom(Tail(s), seen)
    ELSE <<Head(s)>> \o DropDuplicatesFrom(Tail(s), seen \cup {Head(s)})

KeepAllRows(s) == s

DropDuplicates(s) == DropDuplicatesFrom(s, {})

(***************************************************************************)
(* pandas.read_csv of the scraped file                                     *)
(* The file is a sequence of records; numeric fields hold the number their *)
(* decimal text denotes, the types field holds its text.                   *)
(***************************************************************************)
ReadCsv(file) ==
    [i \in 1..Len(file) |-> [file[i] EXCEPT !.types = ReadField(file[i].types)]]

\* dtype of the types column after read_csv: object as soon as one field holds
\* a text, float64 when every field is missing
TypesIsObject(df) == \E i \in 1..Len(df) : df[i].types.kind = "str"

(***************************************************************************)
(* DataProcessor.transform_data, statement by statement                    *)
(***************************************************************************)
\* start of the RangeIndex
IndexStart == 1000

custom_index_col_from_one(n) == [i \in 1..n |-> IndexStart + i]

\* pd.RangeIndex(start=1000, stop=1000 + len(df), step=1)
custom_index_col(n) == [i \in 1..n |-> IndexStart + (i - 1)]

\* "P" + index.astype("string")
PokemonId(v) == <<"P">> \o IntToStr(v)

\* df.index = ...; df = df.reset_index()
WithIndex(df) ==
    LET index == custom_index_col(Len(df))
    IN  [i \in 1..Len(df) |->
            [pokemon_id |-> PokemonId(index[i]), row |-> df[i]]]

ExplodeRowFirstOnly(r) ==
    <<[pokemon_id |-> r.pokemon_id,
       row |-> [r.row EXCEPT !.types = CellSplit(r.row.types)[1]]]>>

\* the rows one row explodes into: one per element of its list
ExplodeRow(r) ==
    LET list == CellSplit(r.row.types)
    IN  [j \in 1..Len(list) |->
            [pokemon_id |-> r.pokemon_id,
             row |-> [r.row EXCEPT !.types = list[j]]]]

\* df["types"].str.split(","); df.explode("types").reset_index(drop=True)
Explode(df) == Flatten([i \in 1..Len(df) |-> ExplodeRow(df[i])])

\* df["types"] = df["types"].str.strip()
Strip(df) ==
    [i \in 1..Len(df) |->
        [df[i] EXCEPT !.row.types = CellStrip(df[i].row.types)]]

Exploded(df) == Strip(Explode(WithIndex(df)))

AttackBuggy(row) == row.attack + row.special_defense

\* df["attack"].astype("int") + df["special_attack"].astype("int")
Attack(row) == row.attack + row.special_attack

DefenseBuggy(row) == row.defense + row.special_attack

\* df["defense"].astype("int") + df["special_defense"].astype("int")
Defense(row) == row.defense + row.special_defense

\* pd.to_datetime(df["scrape_ts"]).max()
DataAsOn(df) == SeqMax([i \in 1..Len(df) |-> df[i].row.scrape_ts])

\* the custom columns, the drop of the raw columns and the rename:
\* the wide table the unpivot starts from
Wide(df) ==
    LET data_as_on == DataAsOn(df)
    IN
    [i \in 1..Len(df) |->
        [PokeID |-> df[i].pokemon_id,
         Rank |-> df[i].row.rank,
         Pokemon |-> df[i].row.name,
         Type |-> df[i].row.types,
         HP |-> df[i].row.hit_points,
         Attack |-> Attack(df[i].row),
         Defense |-> Defense(df[i].row),
         Speed |-> df[i].row.speed,
         Icon |-> df[i].row.icon_url,
         DetailsLink |-> df[i].row.details_url,
         DataAsOn |-> data_as_on]]

\* value_vars of the melt, in order
ValueVars == <<"HP", "Attack", "Defense", "Speed">>

MetricOf(w, m) ==
    CASE m = "HP" -> w.HP
      [] m = "Attack" -> w.Attack
      [] m = "Defense" -> w.Defense
      [] m = "Speed" -> w.Speed

\* df.melt(id_vars=..., value_vars=..., var_name="Metric", value_name="Values"):
\* all rows for the first metric, then all rows for the second, ...
Melt(wide) ==
    [j \in 1..(Len(wide) * Len(ValueVars)) |->
        LET w == wide[((j - 1) % Len(wide)) + 1]
            m == ValueVars[((j - 1) \div Len(wide)) + 1]
        IN  [PokeID |-> w.PokeID, Rank |-> w.Rank, Pokemon |-> w.Pokemon,
             Type |-> w.Type, Metric |-> m, Values |-> MetricOf(w, m),
             Icon |-> w.Icon, DetailsLink |-> w.DetailsLink,
             DataAsOn |-> w.DataAsOn]]

\* astype(int) of Values and Rank (integers already), astype(str) of every
\* column but Rank, Values and Data As On
FixDatatypes(long) ==
    [j \in 1..Len(long) |-> [long[j] EXCEPT !.Type = AsTypeStr(long[j].Type)]]

\* df[pokemons_tbl_cols].drop_duplicates().reset_index(drop=True)
PokemonsTbl(long) == DropDuplicates(long)

\* the whole of transform_data: the table, or the exception it raises
\* (.str on a column that is not of object dtype raises AttributeError)
transform_data(df) ==
    IF ~TypesIsObject(df)
    THEN [ok |-> FALSE, exc |-> "AttributeError", tbl |-> <<>>]
    ELSE [ok |-> TRUE, exc |-> "none",
          tbl |-> PokemonsTbl(FixDatatypes(Melt(Wide(Exploded(df)))))]

(***************************************************************************)
(* The dtypes of the columns through transform_data                        *)
(***************************************************************************)
\* the dtypes read_csv infers: int64 for the numeric columns, object for
\* the texts, float64 for a types column with every field missing
ScrapedDtypes(df) ==
    [rank |-> "int64", name |-> "object",
     types |-> IF TypesIsObject(df) THEN "object" ELSE "float64",
     total_power |-> "int64", hit_points |-> "int64", attack |-> "int64",
     defense |-> "int64", special_attack |-> "int64",
     special_defense |-> "int64", speed |-> "int64", icon_url |-> "object",
     details_url |-> "object", scrape_ts |-> "object"]

\* the wide table: the index "P" + astype("string") made a column, the
\* split and stripped types, the sums of astype("int") columns, the maximum
\* of pd.to_datetime, the renamed columns
WideDtypes(d) ==
    [PokeID |-> "string", Rank |-> d.rank, Pokemon |-> d.name,
     Type |-> "object", HP |-> d.hit_points, Attack |-> "int64",
     Defense |-> "int64", Speed |-> d.speed, Icon |-> d.icon_url,
     DetailsLink |-> d.details_url, DataAsOn |-> "datetime64"]

\* melt: the value column has the common dtype of the value_vars, the
\* variable column is object
MeltDtypes(w) ==
    [PokeID |-> w.PokeID, Rank |-> w.Rank, Pokemon |-> w.Pokemon,
     Type |-> w.Type, Metric |-> "object",
     Values |-> IF {w[ValueVars[k]] : k \in 1..Len(ValueVars)} = {"int64"}
                THEN "int64" ELSE "object",
     Icon |-> w.Icon, DetailsLink |-> w.DetailsLink, DataAsOn |-> w.DataAsOn]

FixDtypesEveryColumn(l) ==
    [c \in DOMAIN l |-> IF c \in {"Rank", "Values"} THEN "int64" ELSE "object"]

\* astype(int) of Values and Rank, astype(str) of every column not in
\* ["Rank", "Values", "Data As On"]
FixDtypes(l) ==
    [c \in DOMAIN l |->
        IF c \in {"Rank", "Values"} THEN "int64"
        ELSE IF c = "DataAsOn" THEN l[c]
        ELSE "object"]

\* the dtypes of the table transform_data returns
TblDtypes(df) == FixDtypes(MeltDtypes(WideDtypes(ScrapedDtypes(df))))

(***************************************************************************)
(* DataProcessor.load_processed_tables                                     *)
(***************************************************************************)
\* the text to_csv writes for a cell (na_rep is the empty text)
CellText(c) == IF c.kind = "nan" THEN <<>> ELSE c.s

\* DataFrame.to_csv(path, index=False): the rows as written
ToCsv(tbl) == [j \in 1..Len(tbl) |-> [tbl[j] EXCEPT !.Type = CellText(tbl[j].Type)]]

WriteCsvAppend(old, tbl) == old \o ToCsv(tbl)

\* the destination after to_csv: the default mode "w" replaces the content
WriteCsv(old, tbl) == ToCsv(tbl)

(***************************************************************************)
(* Inputs: the records a scraped file can hold                             *)
(* A name is the sequence of the texts it is put together from.            *)
(***************************************************************************)
StatsTest ==
    [name |-> <<"Test">>, hit_points |-> 10, attack |-> 5, special_attack |-> 5,
     defense |-> 3, special_defense |-> 2, speed |-> 7, scrape_ts |-> 1]

StatsBulbasaur ==
    [name |-> <<"Bulbasaur">>, hit_points |-> 45, attack |-> 49,
     special_attack |-> 65, defense |-> 49, special_defense |-> 60,
     speed |-> 45, scrape_ts |-> 2]

\* the types field and the other fields of the records drawn: two types
\* without and with a blank, one type, none, a type twice, two empty pieces
RecordInputs ==
    {<<<<"F", "i", "r", "e", ",", "F", "l", "y", "i", "n", "g">>, StatsTest>>,
     <<<<"G", "r", "a", "s", "s", ",", " ", "P", "o", "i", "s", "o", "n">>, StatsBulbasaur>>,
     <<<<"F", "i", "r", "e">>, StatsTest>>,
     <<<<>>, StatsBulbasaur>>,
     <<<<"F", "i", "r", "e", ",", "F", "i", "r", "e">>, StatsTest>>,
     <<<<",">>, StatsBulbasaur>>}

\* the i-th record of a scraped file: the rank counts the records
ScrapedRecord(i, t, st) ==
    [rank |-> i, name |-> st.name, types |-> t,
     total_power |-> st.hit_points + st.attack + st.defense
                     + st.special_attack + st.special_defense + st.speed,
     hit_points |-> st.hit_points, attack |-> st.attack,
     defense |-> st.defense, special_attack |-> st.special_attack,
     special_defense |-> st.special_defense, speed |-> st.speed,
     icon_url |-> "icon", details_url |-> "details",
     scrape_ts |-> st.scrape_ts]

ScrapedFiles ==
    UNION {{[i \in 1..n |-> ScrapedRecord(i, c[i][1], c[i][2])] :
              c \in [1..n -> RecordInputs]} : n \in 0..MaxRows}

(***************************************************************************)
(* The legacy ETL script, 02_ETL/pokemons_data_etl.py                      *)
(* Its input holds the same records under the legacy scraper's column      *)
(* names (pokemon_name, type, icon, details_link).                         *)
(***************************************************************************)
\* scraped_data['attack'] + scraped_data['special_attack']
total_attack(row) == row.attack + row.special_attack

\* scraped_data['defense'] + scraped_data['special_defense']
total_defense(row) == row.defense + row.special_defense

\* keep_columns and new_column_names: the columns kept, renamed by position
required_data(scraped_data) ==
    [i \in 1..Len(scraped_data) |->
        [Rank |-> scraped_data[i].rank,
         Pokemon |-> scraped_data[i].name,
         Type |-> scraped_data[i].types,
         Icon |-> scraped_data[i].icon_url,
         DetailsLink |-> scraped_data[i].details_url,
         Attack |-> total_attack(scraped_data[i]),
         Defense |-> total_defense(scraped_data[i]),
         HP |-> scraped_data[i].hit_points,
         Speed |-> scraped_data[i].speed]]

\* the melt has no value_vars: every column that is no id column, in order
LegacyValueVars == <<"Attack", "Defense", "HP", "Speed">>

\* required_data.melt(id_vars=id_cols, var_name="Metric", value_name="Values")
transposed_data(req) ==
    [j \in 1..(Len(req) * Len(LegacyValueVars)) |->
        LET w == req[((j - 1) % Len(req)) + 1]
            m == LegacyValueVars[((j - 1) \div Len(req)) + 1]
        IN  [Rank |-> w.Rank, Pokemon |-> w.Pokemon, Type |-> w.Type,
             Icon |-> w.Icon, DetailsLink |-> w.DetailsLink,
             Metric |-> m, Values |-> MetricOf(w, m)]]

\* set_index(all_other_columns).apply(lambda x: x.str.split(',').explode())
\* .reset_index(): one row per piece, the pieces not stripped
flat_data(tr) ==
    Flatten([j \in 1..Len(tr) |->
        [k \in 1..Len(CellSplit(tr[j].Type)) |->
            [tr[j] EXCEPT !.Type = CellSplit(tr[j].Type)[k]]]])

\* 'P' + index.astype('string') + '-' + Rank.astype('string') over
\* pd.RangeIndex(start=1000, stop=1000+len(pokedex_data))
pokedex_data(flat) ==
    [j \in 1..Len(flat) |->
        [PokeID |-> <<"P">> \o IntToStr(custom_index_col(Len(flat))[j])
                        \o <<"-">> \o IntToStr(flat[j].Rank),
         Rank |-> flat[j].Rank, Type |-> CellText(flat[j].Type),
         Pokemon |-> flat[j].Pokemon, Icon |-> flat[j].Icon,
         DetailsLink |-> flat[j].DetailsLink, Metric |-> flat[j].Metric,
         Values |-> flat[j].Values]]

\* the rows the script exports
LegacyEtl(file) ==
    pokedex_data(flat_data(transposed_data(required_data(ReadCsv(file)))))

(***************************************************************************)
(* PokemonScraper                                                          *)
(* A row of the table #pokedex is a record of what the finds of            *)
(* extract_pokemon_info meet in it.                                        *)
(***************************************************************************)
\* the fields of the dataclass PokemonInfo
PokemonInfoFields ==
    {"title", "price", "in_stocks", "sku", "category", "description",
     "product_image_link", "additional_info", "product_link", "scrape_ts"}

\* the keywords extract_pokemon_info passes to PokemonInfo
ExtractKeywords ==
    {"rank", "name", "types", "total_power", "hit_points", "attack",
     "defense", "special_attack", "special_defense", "speed", "icon_url",
     "details_url", "scrape_ts"}

\* ", ".join(types_list)
RECURSIVE JoinTypes(_)
JoinTypes(list) ==
    IF list = <<>> THEN <<>>
    ELSE IF Len(list) = 1 THEN list[1]
    ELSE list[1] \o <<",", " ">> \o JoinTypes(Tail(list))

\* the name: f"{common_name} ({extra_name})" when the row has the small
\* text-muted tag, common_name when the find of it raises AttributeError
ExtractName(row) ==
    IF row.has_extra_name
    THEN <<row.common_name, " (", row.extra_name, ")">>
    ELSE <<row.common_name>>

\* find_all("td", class_="cell-num")[2:]
power_stats(row) == SubSeq(row.cell_num, 3, Len(row.cell_num))

\* extract_pokemon_info(pokemon): the dictionary, or the exception raised.
\* The arguments are evaluated first; the call of PokemonInfo raises
\* TypeError when a keyword is no field of the dataclass.
extract_pokemon_info(row, now) ==
    IF ~row.has_name_link
    THEN [ok |-> FALSE, exc |-> "AttributeError", data |-> <<>>]
    ELSE IF Len(power_stats(row)) < 6
    THEN [ok |-> FALSE, exc |-> "IndexError", data |-> <<>>]
    ELSE IF ~(ExtractKeywords \subseteq PokemonInfoFields
                 /\ PokemonInfoFields \subseteq ExtractKeywords)
    THEN [ok |-> FALSE, exc |-> "TypeError", data |-> <<>>]
    ELSE [ok |-> TRUE, exc |-> "none",
          data |-> [rank |-> row.rank, name |-> ExtractName(row),
                    types |-> JoinTypes(row.types_list),
                    total_power |-> row.cell_total,
                    hit_points |-> power_stats(row)[1],
                    attack |-> power_stats(row)[2],
                    defense |-> power_stats(row)[3],
                    special_attack |-> power_stats(row)[4],
                    special_defense |-> power_stats(row)[5],
                    speed |-> power_stats(row)[6],
                    icon_url |-> "icon", details_url |-> "details",
                    scrape_ts |-> now]]

\* write_to_csv(path, data): one record appended to the file
write_to_csv(file, data) == Append(file, data)

\* the except clause of scrape_data: an exception raised in its try block is
\* logged and raised again as CustomException; one raised before the try
\* block (create_directories, requests.get) leaves scrape_data as it is
ScrapeDataRaises(exc, in_try) ==
    IF in_try
    THEN [exc |-> "CustomException", raised |-> exc,
          logged |-> <<<<"scrape_data", "CustomException", exc>>>>]
    ELSE [exc |-> exc, raised |-> exc, logged |-> <<>>]

MainWithoutHandler(o) == o

\* the except clause of DataExtractionPipeline.main: whatever leaves
\* PokemonScraper() or scrape_data() is logged and raised as CustomException
MainRaises(o) ==
    [exc |-> "CustomException", raised |-> o.raised,
     logged |-> Append(o.logged, <<"main", "CustomException", o.exc>>)]

\* what the caller of an operation gets: main's caller, or a caller of the
\* class itself
Raises(launcher, o) == IF launcher = "main" THEN MainRaises(o) ELSE o

NoException == [exc |-> "none", raised |-> "none", logged |-> <<>>]

(***************************************************************************)
(* Inputs: the rows of the page                                            *)
(***************************************************************************)
\* a row as the site serves it: rank, name link, types, eight numeric cells
\* (rank, total and the six attributes)
RowCharmander ==
    [rank |-> 4, has_name_link |-> TRUE, common_name |-> "Charmander",
     has_extra_name |-> FALSE, extra_name |-> "",
     types_list |-> <<<<"F", "i", "r", "e">>>>,
     cell_total |-> 309, cell_num |-> <<4, 309, 39, 52, 43, 60, 50, 65>>]

\* a row with the small text-muted tag of a variant
RowMegaCharizard ==
    [rank |-> 6, has_name_link |-> TRUE, common_name |-> "Charizard",
     has_extra_name |-> TRUE, extra_name |-> "Mega Charizard Y",
     types_list |-> <<<<"F", "i", "r", "e">>,
                      <<"F", "l", "y", "i", "n", "g">>>>,
     cell_total |-> 634, cell_num |-> <<6, 634, 78, 104, 78, 159, 115, 100>>]

\* a row without the name link
RowBroken ==
    [rank |-> 7, has_name_link |-> FALSE, common_name |-> "",
     has_extra_name |-> FALSE, extra_name |-> "", types_list |-> <<>>,
     cell_total |-> 0, cell_num |-> <<7, 0>>]

\* the rows of the site, in document order
SiteRows == <<RowCharmander, RowMegaCharizard, RowBroken>>

WellFormed(row) == row.has_name_link /\ Len(row.cell_num) = 8

\* the pages served: up to MaxPage consecutive rows of the site
Pages ==
    {SubSeq(SiteRows, ab[1], ab[2]) :
        ab \in {x \in (1..Len(SiteRows)) \X (0..Len(SiteRows)) :
                    x[2] >= x[1] - 1 /\ x[2] - x[1] < MaxPage}}

\* the instances of PokemonScraper a behaviour can hold
Scrapers == {"s1", "s2"}

\* who calls the scraper: DataExtractionPipeline.main, or a user of the class
Launchers == {"main", "direct"}

(***************************************************************************)
(* State                                                                   *)
(***************************************************************************)
VARIABLES
    scraped_file,    \* the records in the file at scraped_data_path
    processed_file,  \* the file at processed_data_path: exists, rows
    dp_outcome,      \* how the last load_processed_tables ended
    dp_log,          \* what the last run logged with logger.error
    dp_runs,         \* runs of load_processed_tables so far
    dp_read,         \* the scraped files read by the runs that succeeded
    scraped_df,      \* the caller's table: as read, and after transform_data
    legacy_file,     \* the file pokedex_data.csv of the legacy ETL script
    page,            \* the rows of the table the site serves
    clear_contents,  \* the flag of the configuration file
    sc_pc,           \* where each PokemonScraper is
    sc_idx,          \* rows its running call of scrape_data has handled
    sc_launcher,     \* who made it
    sc_outcome,      \* how its last operation ended, for the caller
    sc_start,        \* the scraped file when its last scrape_data began
    sc_calls,        \* calls of scrape_data so far
    sc_overlap,      \* the scrapers whose last call began inside another's loop
    all_pokemons,    \* the list the legacy scraper gathers its records in
    lg_pc,           \* where the legacy scraper script is
    lg_idx,          \* rows the loop of scrape_content has handled
    pokemons_data    \* the file pokemons_data.csv of the legacy scraper

dp_vars ==
    <<processed_file, dp_outcome, dp_log, dp_runs, dp_read, scraped_df>>

lg_vars == <<all_pokemons, lg_pc, lg_idx, pokemons_data>>

legacy_vars == <<legacy_file, all_pokemons, lg_pc, lg_idx, pokemons_data>>

sc_vars ==
    <<page, clear_contents, sc_pc, sc_idx, sc_launcher, sc_outcome, sc_start,
      sc_calls, sc_overlap>>

vars ==
    <<scraped_file, processed_file, dp_outcome, dp_log, dp_runs, dp_read,
      scraped_df, legacy_file, page, clear_contents, sc_pc, sc_idx, sc_launcher,
      sc_outcome, sc_start, sc_calls, sc_overlap, all_pokemons, lg_pc,
      lg_idx, pokemons_data>>

NoFile == [exists |-> FALSE, rows |-> <<>>]

\* a row index: the dtype of its labels and the labels
Index(dtype, labels) == [dtype |-> dtype, labels |-> labels]

\* a DataFrame as its caller holds it: the row index and the rows
Frame(index, rows) == [index |-> index, rows |-> rows]

\* the table read_csv returns: the rows under the default RangeIndex
ReadFrame(file) ==
    Frame(Index("int64", [i \in 1..Len(file) |-> i - 1]), ReadCsv(file))

\* The caller's table after transform_data(df): df.index = ... assigns the
\* index of the object passed in, twice, before df = df.reset_index() binds
\* the name to a new table; every later statement works on new tables.
FrameAfterTransform(f) ==
    LET index == custom_index_col(Len(f.rows))
    IN  Frame(Index("string",
                    [i \in 1..Len(f.rows) |-> PokemonId(index[i])]),
              f.rows)

NoFrames ==
    [called |-> FALSE, before |-> Frame(Index("int64", <<>>), <<>>),
     after |-> Frame(Index("int64", <<>>), <<>>)]

InitProcessor ==
    /\ processed_file = NoFile
    /\ scraped_df = NoFrames
    /\ dp_outcome = "none"
    /\ dp_log = <<>>
    /\ dp_runs = 0
    /\ dp_read = <<>>

\* how an operation of a scraper ended: op is the operation, fault what
\* the environment did to it, exc what its caller got, raised the exception
\* first raised in it, logged what logger.error was given
Outcome(op, fault, o) ==
    [op |-> op, fault |-> fault, exc |-> o.exc, raised |-> o.raised,
     logged |-> o.logged]

InitScraper ==
    /\ sc_pc = [i \in Scrapers |-> "none"]
    /\ sc_idx = [i \in Scrapers |-> 0]
    /\ sc_launcher = [i \in Scrapers |-> "direct"]
    /\ sc_outcome = [i \in Scrapers |-> Outcome("none", "none", NoException)]
    /\ sc_start = [i \in Scrapers |-> <<>>]
    /\ sc_calls = 0
    /\ sc_overlap = {}

InitLegacyScraper ==
    /\ all_pokemons = <<>>
    /\ lg_pc = "idle"
    /\ lg_idx = 0
    /\ pokemons_data = NoFile

Init ==
    /\ scraped_file \in ScrapedFiles
    /\ InitProcessor
    /\ legacy_file = NoFile
    /\ InitLegacyScraper
    /\ page = <<>>
    /\ clear_contents = FALSE
    /\ InitScraper

\* the failures of the file system a run can meet
IOFailures == {"none", "makedirs", "to_csv_open", "to_csv_write"}

\* the exception the try block of load_processed_tables ends with, "none"
\* when it runs to its end; res is what transform_data does on the file read
LoadException(file, res, io) ==
    IF io = "makedirs" THEN "OSError"
    ELSE IF file = <<>> THEN "EmptyDataError"
    ELSE IF ~res.ok THEN res.exc
    ELSE IF io \in {"to_csv_open", "to_csv_write"} THEN "OSError"
    ELSE "none"

\* One call of load_processed_tables: create the directory, read the scraped
\* file, transform it, write the table; any exception is logged and raised
\* again as CustomException.
LoadProcessedTables(io) ==
    /\ dp_runs < MaxRuns
    /\ dp_runs' = dp_runs + 1
    /\ scraped_df' =
           IF io = "makedirs" \/ scraped_file = <<>>
           THEN scraped_df
           ELSE [called |-> TRUE, before |-> ReadFrame(scraped_file),
                 after |-> FrameAfterTransform(ReadFrame(scraped_file))]
    /\ LET res == transform_data(ReadCsv(scraped_file))
           exc == LoadException(scraped_file, res, io)
       IN  IF exc = "none"
           THEN /\ processed_file' =
                       [exists |-> TRUE,
                        rows |-> WriteCsv(processed_file.rows, res.tbl)]
                /\ dp_outcome' = "ok"
                /\ dp_log' = <<>>
                /\ dp_read' = Append(dp_read, scraped_file)
           ELSE /\ processed_file' =
                       IF exc = "OSError" /\ io = "to_csv_write"
                       THEN [exists |-> TRUE, rows |-> <<>>]
                       ELSE processed_file
                /\ dp_outcome' = "CustomException"
                /\ dp_log' = <<<<"CustomException", exc>>>>
                /\ dp_read' = dp_read
    /\ UNCHANGED <<scraped_file, legacy_vars, sc_vars>>

\* One run of the legacy ETL script: it ends with the export, or with the
\* exception of read_csv (no data) or of .str (no text in the column) and
\* no export.
RunLegacyEtl ==
    /\ ~legacy_file.exists
    /\ scraped_file # <<>>
    /\ TypesIsObject(ReadCsv(scraped_file))
    /\ legacy_file' = [exists |-> TRUE, rows |-> LegacyEtl(scraped_file)]
    /\ UNCHANGED <<scraped_file, dp_vars, sc_vars, lg_vars>>

\* Between two runs the extractor's sink grows by one record.
ScrapedFileGrows(in) ==
    /\ Len(scraped_file) < MaxRows
    /\ scraped_file' =
           Append(scraped_file,
                  ScrapedRecord(Len(scraped_file) + 1, in[1], in[2]))
    /\ UNCHANGED <<dp_vars, legacy_vars, sc_vars>>

\* The transformer and the legacy script over a growing scraped file, the
\* file system working.
Next ==
    \/ LoadProcessedTables("none")
    \/ RunLegacyEtl
    \/ \E in \in RecordInputs : ScrapedFileGrows(in)

Spec == Init /\ [][Next]_vars

(***************************************************************************)
(* The extraction stage                                                    *)
(***************************************************************************)
\* what the environment can do to PokemonScraper.__init__
InitFaults == {"none", "read_yaml", "open"}

\* what the environment can do to scrape_data before its loop
StartFaults == {"none", "makedirs", "get", "no_table"}

\* what the environment can do to one turn of the loop
RowFaults == {"none", "write"}

\* the values of datetime.now()
Timestamps == {1, 2}

\* where a scraper is after an operation ended: main is over, a user of the
\* class can go on with the instance if there is one
After(launcher, constructed) ==
    IF launcher = "main" \/ ~constructed THEN "ended" ELSE "ready"

\* PokemonScraper(): the configuration is read, and with clear_contents set
\* a destination that exists is opened for writing and truncated.
Construct(i, launcher, fault) ==
    /\ sc_pc[i] = "none"
    /\ sc_launcher' = [sc_launcher EXCEPT ![i] = launcher]
    /\ LET opens == clear_contents /\ scraped_file # <<>>
           exc == IF fault = "read_yaml" THEN "FileNotFoundError"
                  ELSE IF fault = "open" /\ opens THEN "OSError"
                  ELSE "none"
       IN  IF exc = "none"
           THEN /\ scraped_file' = IF opens THEN <<>> ELSE scraped_file
                /\ sc_pc' = [sc_pc EXCEPT ![i] = "ready"]
                /\ sc_outcome' =
                       [sc_outcome EXCEPT
                            ![i] = Outcome("__init__", "none", NoException)]
           ELSE /\ scraped_file' = scraped_file
                /\ sc_pc' = [sc_pc EXCEPT ![i] = After(launcher, FALSE)]
                /\ sc_outcome' =
                       [sc_outcome EXCEPT
                            ![i] = Outcome("__init__", fault,
                                       Raises(launcher,
                                           ScrapeDataRaises(exc, FALSE)))]
    /\ UNCHANGED <<dp_vars, legacy_vars, page, clear_contents, sc_idx,
                   sc_start, sc_calls, sc_overlap>>

\* scrape_data up to its loop: create_directories and requests.get before
\* the try block, the search of the table in it.
StartScrape(i, fault) ==
    /\ sc_pc[i] = "ready"
    /\ sc_calls < MaxCalls
    /\ sc_calls' = sc_calls + 1
    /\ sc_start' = [sc_start EXCEPT ![i] = scraped_file]
    /\ sc_idx' = [sc_idx EXCEPT ![i] = 0]
    /\ sc_overlap' =
           IF fault = "none"
              /\ \E j \in Scrapers \ {i} :
                     sc_pc[j] = "scraping" /\ sc_idx[j] < Len(page)
           THEN sc_overlap \cup {i}
           ELSE sc_overlap \ {i}
    /\ LET exc == IF fault = "makedirs" THEN "OSError"
                  ELSE IF fault = "get" THEN "RequestException"
                  ELSE IF fault = "no_table" THEN "AttributeError"
                  ELSE "none"
       IN  IF exc = "none"
           THEN /\ sc_pc' = [sc_pc EXCEPT ![i] = "scraping"]
                /\ sc_outcome' = sc_outcome
           ELSE /\ sc_pc' = [sc_pc EXCEPT ![i] = After(sc_launcher[i], TRUE)]
                /\ sc_outcome' =
                       [sc_outcome EXCEPT
                            ![i] = Outcome("scrape_data", fault,
                                       Raises(sc_launcher[i],
                                           ScrapeDataRaises(exc,
                                               fault = "no_table")))]
    /\ UNCHANGED <<scraped_file, dp_vars, legacy_vars, page, clear_contents,
                   sc_launcher>>

\* One turn of the loop of scrape_data: extract_pokemon_info on the next
\* row, then write_to_csv; an exception of either ends the call.
ScrapeRow(i, now, fault) ==
    /\ sc_pc[i] = "scraping"
    /\ sc_idx[i] < Len(page)
    /\ LET res == extract_pokemon_info(page[sc_idx[i] + 1], now)
           exc == IF ~res.ok THEN res.exc
                  ELSE IF fault = "write" THEN "OSError"
                  ELSE "none"
       IN  IF exc = "none"
           THEN /\ scraped_file' = write_to_csv(scraped_file, res.data)
                /\ sc_idx' = [sc_idx EXCEPT ![i] = @ + 1]
                /\ UNCHANGED <<sc_pc, sc_outcome>>
           ELSE /\ sc_pc' = [sc_pc EXCEPT ![i] = After(sc_launcher[i], TRUE)]
                /\ sc_outcome' =
                       [sc_outcome EXCEPT
                            ![i] = Outcome("scrape_data",
                                       IF res.ok THEN fault ELSE "none",
                                       Raises(sc_launcher[i],
                                           ScrapeDataRaises(exc, TRUE)))]
                /\ UNCHANGED <<scraped_file, sc_idx>>
    /\ UNCHANGED <<dp_vars, legacy_vars, page, clear_contents, sc_launcher,
                   sc_start, sc_calls, sc_overlap>>

\* The loop of scrape_data is over: the call returns, and so does main.
FinishScrape(i) ==
    /\ sc_pc[i] = "scraping"
    /\ sc_idx[i] = Len(page)
    /\ sc_pc' = [sc_pc EXCEPT ![i] = After(sc_launcher[i], TRUE)]
    /\ sc_outcome' =
           [sc_outcome EXCEPT
                ![i] = Outcome("scrape_data", "none", NoException)]
    /\ UNCHANGED <<scraped_file, dp_vars, legacy_vars, page, clear_contents,
                   sc_idx, sc_launcher, sc_start, sc_calls, sc_overlap>>

\* the scraped files a behaviour of the stages can begin with
InitialFiles ==
    {<<>>,
     <<ScrapedRecord(1, <<"F", "i", "r", "e", ",", "F", "l", "y", "i", "n", "g">>,
                     StatsTest)>>}

InitPipeline ==
    /\ scraped_file \in InitialFiles
    /\ InitProcessor
    /\ legacy_file = NoFile
    /\ InitLegacyScraper
    /\ page \in Pages
    /\ clear_contents \in BOOLEAN
    /\ InitScraper

\* The stages in an environment that can fail: scrapers made by
\* DataExtractionPipeline.main or by a user of the class, and the
\* transformer.
NextPipeline ==
    \/ \E i \in Scrapers, l \in Launchers, f \in InitFaults :
           Construct(i, l, f)
    \/ \E i \in Scrapers, f \in StartFaults : StartScrape(i, f)
    \/ \E i \in Scrapers, now \in Timestamps, f \in RowFaults :
           ScrapeRow(i, now, f)
    \/ \E i \in Scrapers : FinishScrape(i)
    \/ \E io \in IOFailures : LoadProcessedTables(io)

SpecPipeline == InitPipeline /\ [][NextPipeline]_vars

(***************************************************************************)
(* The legacy scraper script                                               *)
(***************************************************************************)
\* the text of the types cell, stripped, its blanks replaced by commas
RECURSIVE LegacyTypes(_)
LegacyTypes(list) ==
    IF list = <<>> THEN <<>>
    ELSE IF Len(list) = 1 THEN list[1]
    ELSE list[1] \o <<",">> \o LegacyTypes(Tail(list))

LegacyNameVariantOnly(row) ==
    IF row.has_extra_name THEN <<row.extra_name>> ELSE <<row.common_name>>

\* the name: name + "-" + meganame when the row has the small text-muted
\* tag, the name when the find of it raises
LegacyName(row) ==
    IF row.has_extra_name
    THEN <<row.common_name, "-", row.extra_name>>
    ELSE <<row.common_name>>

\* one turn of the loop of scrape_content: the dictionary of the row, or
\* the exception raised; the attributes are the cells 1 to 6 of
\* find_all('td', class_='cell-num')
LegacyRecord(row) ==
    IF ~row.has_name_link
    THEN [ok |-> FALSE, exc |-> "AttributeError", data |-> <<>>]
    ELSE IF Len(row.cell_num) < 7
    THEN [ok |-> FALSE, exc |-> "IndexError", data |-> <<>>]
    ELSE [ok |-> TRUE, exc |-> "none",
          data |-> [rank |-> row.rank, pokemon_name |-> LegacyName(row),
                    type |-> LegacyTypes(row.types_list),
                    total_power |-> row.cell_total,
                    hit_points |-> row.cell_num[2],
                    attack |-> row.cell_num[3],
                    defense |-> row.cell_num[4],
                    special_attack |-> row.cell_num[5],
                    special_defense |-> row.cell_num[6],
                    speed |-> row.cell_num[7],
                    icon |-> "icon", details_link |-> "details"]]

\* what the environment can do to extract_content
LegacyFaults == {"none", "get", "no_table"}

\* extract_content(URL): the rows of the table, or the script ends with the
\* exception of the fetch or of the search of the table.
LegacyExtractContent(fault) ==
    /\ lg_pc = "idle"
    /\ lg_pc' = IF fault = "none" THEN "scraping" ELSE "failed"
    /\ UNCHANGED <<scraped_file, dp_vars, legacy_file, sc_vars, all_pokemons,
                   lg_idx, pokemons_data>>

\* One turn of the loop of scrape_content: the dictionary of the row is
\* appended to all_pokemons, or the script ends with the exception.
LegacyScrapeRow ==
    /\ lg_pc = "scraping"
    /\ lg_idx < Len(page)
    /\ LET res == LegacyRecord(page[lg_idx + 1])
       IN  IF res.ok
           THEN /\ all_pokemons' = Append(all_pokemons, res.data)
                /\ lg_idx' = lg_idx + 1
                /\ lg_pc' = lg_pc
           ELSE /\ lg_pc' = "failed"
                /\ UNCHANGED <<all_pokemons, lg_idx>>
    /\ UNCHANGED <<scraped_file, dp_vars, legacy_file, sc_vars,
                   pokemons_data>>

\* load_data(), after the loop: the list is written to pokemons_data.csv.
LegacyLoadData ==
    /\ lg_pc = "scraping"
    /\ lg_idx = Len(page)
    /\ pokemons_data' = [exists |-> TRUE, rows |-> all_pokemons]
    /\ lg_pc' = "loaded"
    /\ UNCHANGED <<scraped_file, dp_vars, legacy_file, sc_vars, all_pokemons,
                   lg_idx>>

InitExtractors ==
    /\ scraped_file \in InitialFiles
    /\ InitProcessor
    /\ legacy_file = NoFile
    /\ InitLegacyScraper
    /\ page \in Pages
    /\ clear_contents \in BOOLEAN
    /\ InitScraper

\* The two extractors over the same page: scrapers of the component, run
\* side by side, and the legacy script.
NextExtractors ==
    \/ \E i \in Scrapers, l \in Launchers, f \in InitFaults :
           Construct(i, l, f)
    \/ \E i \in Scrapers, f \in StartFaults : StartScrape(i, f)
    \/ \E i \in Scrapers, now \in Timestamps, f \in RowFaults :
           ScrapeRow(i, now, f)
    \/ \E i \in Scrapers : FinishScrape(i)
    \/ \E f \in LegacyFaults : LegacyExtractContent(f)
    \/ LegacyScrapeRow
    \/ LegacyLoadData

SpecExtractors == InitExtractors /\ [][NextExtractors]_vars

(***************************************************************************)
(* Properties                                                              *)
(***************************************************************************)
\* the scraped file the last successful run of load_processed_tables read
LastRead == dp_read[Len(dp_read)]

DigitVal(c) == CHOOSE d \in 0..9 : DigitChar[d + 1] = c

\* the number a decimal text denotes
RECURSIVE StrToInt(_)
StrToInt(s) ==
    IF Len(s) = 1 THEN DigitVal(s[1])
    ELSE 10 * StrToInt(SubSeq(s, 1, Len(s) - 1)) + DigitVal(s[Len(s)])

Commas(s) == Cardinality({j \in 1..Len(s) : s[j] = ","})

Fire == <<"F", "i", "r", "e">>
Flying == <<"F", "l", "y", "i", "n", "g">>
Grass == <<"G", "r", "a", "s", "s">>
Poison == <<"P", "o", "i", "s", "o", "n">>
FireFlying == Fire \o <<",">> \o Flying
GrassPoison == Grass \o <<",", " ">> \o Poison

\* C1: in transform_data, an input row whose types field holds k
\* comma-separated values explodes into exactly k rows, the j-th carrying the
\* j-th value stripped of surrounding blanks, and the k rows agree with the
\* input row (and so with each other) in every other column.
C1_ExplodeOneRowPerCategory ==
    LET df == ReadCsv(scraped_file)
    IN  TypesIsObject(df) =>
        \A i \in 1..Len(df) :
            df[i].types.kind = "str" =>
            LET k == Commas(df[i].types.s) + 1
                pieces == StrSplit(df[i].types.s, ",")
                rows == SelectSeq(Exploded(df), LAMBDA r : r.row.rank = i)
            IN  /\ Len(rows) = k
                /\ \A j \in 1..k :
                    /\ rows[j].row.types = StrCell(StrStrip(pieces[j]))
                    /\ Commas(rows[j].row.types.s) = 0
                    /\ rows[j].row.types.s # <<>> =>
                           /\ Head(rows[j].row.types.s) # " "
                           /\ rows[j].row.types.s[Len(rows[j].row.types.s)] # " "
                    /\ [rows[j].row EXCEPT !.types = df[i].types] = df[i]
                    /\ rows[j].pokemon_id = rows[1].pokemon_id

\* a run has transformed a file with the record "Grass, Poison" and written
\* one row group for Grass and one for Poison
C1_Witness ==
    /\ dp_outcome = "ok"
    /\ \E i \in 1..Len(LastRead) :
        /\ LastRead[i].types = GrassPoison
        /\ \E o \in Range(processed_file.rows) : o.Rank = i /\ o.Type = Grass
        /\ \E o \in Range(processed_file.rows) : o.Rank = i /\ o.Type = Poison

\* C2: transform_data gives the i-th input row (i = 0..n-1) the identifier
\* "P" followed by the decimal digits of 1000+i: the identifiers of distinct
\* rows differ and increase with the row, the first is "P1000", and every row
\* of the written table carries the identifier of the input row it came from.
C2_IdentifierSequence ==
    LET ix == WithIndex(ReadCsv(scraped_file))
    IN  /\ \A i \in 1..Len(ix) :
            /\ Head(ix[i].pokemon_id) = "P"
            /\ StrToInt(Tail(ix[i].pokemon_id)) = 1000 + (i - 1)
        /\ \A i, j \in 1..Len(ix) :
            i < j =>
                /\ ix[i].pokemon_id # ix[j].pokemon_id
                /\ StrToInt(Tail(ix[i].pokemon_id))
                       < StrToInt(Tail(ix[j].pokemon_id))
        /\ Len(ix) >= 1 => ix[1].pokemon_id = <<"P", "1", "0", "0", "0">>
        /\ processed_file.exists =>
            \A o \in Range(processed_file.rows) :
                /\ Head(o.PokeID) = "P"
                /\ StrToInt(Tail(o.PokeID)) = 1000 + (o.Rank - 1)

\* a run has written rows of a first and of a second input row
C2_Witness ==
    /\ dp_outcome = "ok"
    /\ Len(LastRead) >= 2
    /\ \E o \in Range(processed_file.rows) :
           o.Rank = 1 /\ o.PokeID = <<"P", "1", "0", "0", "0">>
    /\ \E o \in Range(processed_file.rows) :
           o.Rank = 2 /\ o.PokeID = <<"P", "1", "0", "0", "1">>

\* C3: in the table of the component transformer and in the export of the
\* legacy script, the Attack value of every row is attack + special_attack
\* and its Defense value defense + special_defense of the scraped record
\* (found by its rank) the row came from.
C3_DerivedSums ==
    /\ processed_file.exists =>
        \A o \in Range(processed_file.rows) :
            /\ o.Metric = "Attack" =>
                   o.Values = LastRead[o.Rank].attack
                                  + LastRead[o.Rank].special_attack
            /\ o.Metric = "Defense" =>
                   o.Values = LastRead[o.Rank].defense
                                  + LastRead[o.Rank].special_defense
    /\ legacy_file.exists =>
        \A o \in Range(legacy_file.rows) :
            /\ o.Metric = "Attack" =>
                   o.Values = scraped_file[o.Rank].attack
                                  + scraped_file[o.Rank].special_attack
            /\ o.Metric = "Defense" =>
                   o.Values = scraped_file[o.Rank].defense
                                  + scraped_file[o.Rank].special_defense

\* both programs have run on a file with Bulbasaur (49 + 65, 49 + 60)
C3_Witness ==
    /\ dp_outcome = "ok"
    /\ legacy_file.exists
    /\ \E o \in Range(processed_file.rows) :
           o.Pokemon = <<"Bulbasaur">> /\ o.Metric = "Attack" /\ o.Values = 114
    /\ \E o \in Range(processed_file.rows) :
           o.Pokemon = <<"Bulbasaur">> /\ o.Metric = "Defense" /\ o.Values = 109
    /\ \E o \in Range(legacy_file.rows) :
           o.Pokemon = <<"Bulbasaur">> /\ o.Metric = "Attack" /\ o.Values = 114
    /\ \E o \in Range(legacy_file.rows) :
           o.Pokemon = <<"Bulbasaur">> /\ o.Metric = "Defense" /\ o.Values = 109

\* the wide table of the last successful run, as it stands before the unpivot
LastWide == Wide(Exploded(ReadCsv(LastRead)))

\* the table transform_data returned in the last successful run
LastTbl == transform_data(ReadCsv(LastRead)).tbl

\* C4, as claimed: the table transform_data returns has exactly n*4 rows for
\* the n rows of the wide table, every (row, metric) pair exactly once.
C4_Original ==
    dp_read # <<>> =>
        LET wide == LastWide
            tbl == LastTbl
        IN  /\ Len(tbl) = Len(wide) * 4
            /\ \A r \in 1..Len(wide), m \in Range(ValueVars) :
                \E o \in Range(tbl) :
                    /\ o.PokeID = wide[r].PokeID
                    /\ o.Type = AsTypeStr(wide[r].Type)
                    /\ o.Metric = m
                    /\ o.Values = MetricOf(wide[r], m)

\* C4, amended: the melt of the n rows of the wide table has exactly n*4
\* rows, for every metric the n rows in order, each with its row's value.
\* The table transform_data returns has passed drop_duplicates: it holds
\* every (identifier, category, metric) combination of the wide table exactly
\* once, with its value, so it has 4 rows per distinct (identifier, category)
\* pair, which are n*4 rows when no input row names a category twice.
C4_UnpivotThenDeduplicate ==
    dp_read # <<>> =>
        LET wide == LastWide
            tbl == LastTbl
            long == Melt(wide)
            keys == {<<w.PokeID, AsTypeStr(w.Type)>> : w \in Range(wide)}
        IN  /\ Len(long) = Len(wide) * 4
            /\ \A m \in Range(ValueVars) :
                LET of_m == SelectSeq(long, LAMBDA o : o.Metric = m)
                IN  /\ Len(of_m) = Len(wide)
                    /\ \A r \in 1..Len(wide) :
                        /\ of_m[r].PokeID = wide[r].PokeID
                        /\ of_m[r].Type = wide[r].Type
                        /\ of_m[r].Values = MetricOf(wide[r], m)
            /\ Len(tbl) = 4 * Cardinality(keys)
            /\ \A w \in Range(wide), m \in Range(ValueVars) :
                /\ Cardinality({j \in 1..Len(tbl) :
                       /\ tbl[j].PokeID = w.PokeID
                       /\ tbl[j].Type = AsTypeStr(w.Type)
                       /\ tbl[j].Metric = m}) = 1
                /\ \A o \in Range(tbl) :
                       (o.PokeID = w.PokeID /\ o.Type = AsTypeStr(w.Type)
                            /\ o.Metric = m) => o.Values = MetricOf(w, m)
            /\ Cardinality(keys) = Len(wide) => Len(tbl) = Len(wide) * 4
            /\ processed_file.rows = ToCsv(tbl)

\* a run has transformed a record that names Fire twice: two rows in the wide
\* table, four rows returned
C4_Witness ==
    /\ dp_outcome = "ok"
    /\ Len(LastRead) = 1
    /\ LastRead[1].types = Fire \o <<",">> \o Fire
    /\ Len(LastWide) = 2
    /\ Len(processed_file.rows) = 4

\* C5, as claimed: for every identifier, the (category, metric, value)
\* triples of the returned rows with that identifier are exactly the triples
\* the wide table held for it before the unpivot.
C5_RoundTrip ==
    dp_read # <<>> =>
        LET wide == Range(LastWide)
            tbl == Range(LastTbl)
        IN  \A id \in {w.PokeID : w \in wide} \cup {o.PokeID : o \in tbl} :
                {<<o.Type, o.Metric, o.Values>> :
                     o \in {x \in tbl : x.PokeID = id}}
              = {<<w[1].Type, w[2], MetricOf(w[1], w[2])>> :
                     w \in {x \in wide : x.PokeID = id} \X Range(ValueVars)}

\* C6: the scraped file with the one record Test, "Fire,Flying", hp 10,
\* attack 5, special_attack 5, defense 3, special_defense 2, speed 7 is
\* transformed into exactly 8 rows, Fire and Flying each with HP=10,
\* Attack=10, Defense=5, Speed=7, all with the identifier "P1000".
C6_EndToEnd ==
    ( /\ dp_read # <<>>
      /\ Len(LastRead) = 1
      /\ LastRead[1].name = <<"Test">>
      /\ LastRead[1].types = FireFlying
      /\ LastRead[1].hit_points = 10
      /\ LastRead[1].attack = 5
      /\ LastRead[1].special_attack = 5
      /\ LastRead[1].defense = 3
      /\ LastRead[1].special_defense = 2
      /\ LastRead[1].speed = 7 )
    => /\ Len(processed_file.rows) = 8
       /\ {<<o.Type, o.Metric, o.Values>> : o \in Range(processed_file.rows)}
              = {<<t, mv[1], mv[2]>> :
                      t \in {Fire, Flying},
                      mv \in {<<"HP", 10>>, <<"Attack", 10>>,
                              <<"Defense", 5>>, <<"Speed", 7>>}}
       /\ \A o \in Range(processed_file.rows) :
              o.PokeID = <<"P", "1", "0", "0", "0">> /\ o.Pokemon = <<"Test">>

\* a run has transformed that file
C6_Witness ==
    /\ dp_outcome = "ok"
    /\ Len(LastRead) = 1
    /\ LastRead[1].name = <<"Test">>
    /\ LastRead[1].types = FireFlying
    /\ LastRead[1].hit_points = 10
    /\ Len(processed_file.rows) = 8

\* C7, as claimed: a scraped record whose types field is empty has rows in
\* the returned table, their category is the empty text, and the explode
\* never leaves fewer rows than it got.
C7_EmptyCategoryKept ==
    dp_read # <<>> =>
        LET tbl == Range(LastTbl)
        IN  /\ \A i \in 1..Len(LastRead) :
                LastRead[i].types = <<>> =>
                    /\ \E o \in tbl : o.Rank = i
                    /\ \A o \in tbl : o.Rank = i => o.Type = StrCell(<<>>)
            /\ Len(Exploded(ReadCsv(LastRead))) >= Len(LastRead)

\* C8: after a successful run of load_processed_tables the destination holds
\* exactly the rows of the transform of the scraped file that run read,
\* whatever earlier runs had written.
C8_RunReplacesDestination ==
    dp_outcome = "ok" =>
        processed_file = [exists |-> TRUE, rows |-> ToCsv(LastTbl)]

\* two successful runs have read different scraped files
C8_Witness ==
    /\ dp_outcome = "ok"
    /\ Len(dp_read) >= 2
    /\ dp_read[Len(dp_read) - 1] # LastRead
    /\ ToCsv(transform_data(ReadCsv(dp_read[Len(dp_read) - 1])).tbl)
           # processed_file.rows

\* the calls of scrape_data that ended with nothing in their way: made on
\* the only scraper of the behaviour, over a page of well-formed rows, the
\* environment not failing
UndisturbedCall(i) ==
    /\ sc_outcome[i].op = "scrape_data"
    /\ sc_outcome[i].fault = "none"
    /\ sc_pc[i] \in {"ready", "ended"}
    /\ \A j \in Scrapers \ {i} : sc_pc[j] = "none"
    /\ \A k \in 1..Len(page) : WellFormed(page[k])

\* C9: with the clear-destination flag set the scraped file holds, after a
\* call of scrape_data, the records of that call only, one per row of the
\* page; with the flag unset the call has put one record per row of the page
\* after the content it found.
C9_Original ==
    \A i \in Scrapers :
        UndisturbedCall(i) =>
            IF clear_contents
            THEN Len(scraped_file) = Len(page)
            ELSE /\ Len(scraped_file) = Len(sc_start[i]) + Len(page)
                 /\ SubSeq(scraped_file, 1, Len(sc_start[i])) = sc_start[i]

\* the runs of DataExtractionPipeline.main that are over
MainOver(i) == sc_launcher[i] = "main" /\ sc_pc[i] = "ended"

TransformColumns ==
    {"rank", "name", "types", "total_power", "hit_points", "attack",
     "defense", "special_attack", "special_defense", "speed", "icon_url",
     "details_url", "scrape_ts"}

\* C11: for every well-formed row of the page extract_pokemon_info returns
\* a record whose fields are rank, name, types, total_power, hit_points,
\* attack, defense, special_attack, special_defense, speed, icon_url,
\* details_url and scrape_ts, the columns transform_data reads, the six
\* attributes being the 3rd to 8th numeric cells of the row in that order;
\* so a call of scrape_data the environment leaves alone ends with an
\* exception at a row that is not well-formed only.
C11_Original ==
    /\ \A k \in 1..Len(page), now \in Timestamps :
           WellFormed(page[k]) =>
               LET res == extract_pokemon_info(page[k], now)
               IN  /\ res.ok
                   /\ DOMAIN res.data = TransformColumns
                   /\ <<res.data.hit_points, res.data.attack,
                        res.data.defense, res.data.special_attack,
                        res.data.special_defense, res.data.speed>>
                          = SubSeq(page[k].cell_num, 3, 8)
                   /\ res.data.scrape_ts = now
    /\ \A i \in Scrapers :
           (/\ sc_outcome[i].op = "scrape_data"
            /\ sc_outcome[i].fault = "none"
            /\ sc_outcome[i].raised # "none")
               => ~WellFormed(page[sc_idx[i] + 1])

\* the rows of the page before its first row that is not well-formed
LeadingWellFormed ==
    IF \A k \in 1..Len(page) : WellFormed(page[k]) THEN Len(page)
    ELSE (CHOOSE k \in 1..Len(page) :
              /\ ~WellFormed(page[k])
              /\ \A j \in 1..(k - 1) : WellFormed(page[j])) - 1

LegacyBuffered ==
    /\ lg_pc = "failed" => ~pokemons_data.exists
    /\ lg_pc = "loaded" =>
           /\ pokemons_data.exists
           /\ Len(pokemons_data.rows) = Len(page)
           /\ \A k \in 1..Len(page) : pokemons_data.rows[k].rank = page[k].rank

\* the literal half of C12 for scrape_data: the file is what the call found
\* followed by the records of the rows it went through
AppendedSoFar ==
    \A i \in Scrapers :
        (/\ sc_outcome[i].op = "scrape_data"
         /\ sc_pc[i] \in {"ready", "ended"}
         /\ \A j \in Scrapers \ {i} : sc_pc[j] = "none")
            => /\ Len(scraped_file) = Len(sc_start[i]) + sc_idx[i]
               /\ SubSeq(scraped_file, 1, Len(sc_start[i])) = sc_start[i]

\* a call of scrape_data that failed at a row after the first
FailedAfterFirstRow ==
    \E i \in Scrapers :
        /\ sc_outcome[i].op = "scrape_data"
        /\ sc_outcome[i].raised # "none"
        /\ sc_idx[i] >= 1

\* two scrapers in the loop of scrape_data at once: nothing keeps a second
\* run out while a first one writes
BothInLoop ==
    \E i \in Scrapers, j \in Scrapers :
        i # j /\ sc_pc[i] = "scraping" /\ sc_pc[j] = "scraping"

\* the calls that ran side by side: the call of i began while j was in its
\* loop with rows left, the page has rows, all well-formed, the environment
\* left both alone and both are over
SideBySide(i, j) ==
    /\ i # j
    /\ i \in sc_overlap
    /\ sc_outcome[i].op = "scrape_data" /\ sc_outcome[i].fault = "none"
    /\ sc_outcome[j].op = "scrape_data" /\ sc_outcome[j].fault = "none"
    /\ sc_pc[i] \in {"ready", "ended"}
    /\ sc_pc[j] \in {"ready", "ended"}
    /\ Len(page) >= 1
    /\ \A k \in 1..Len(page) : WellFormed(page[k])

\* C13: two runs of the extractor side by side on the same destination
\* leave content neither produces alone: after them the file holds, behind
\* what the later run found, the records of that run and records of the
\* other run among them, more than the one record per row a run alone adds.
C13_Original ==
    \A i \in Scrapers, j \in Scrapers :
        SideBySide(i, j) =>
            Len(scraped_file) > Len(sc_start[i]) + Len(page)

\* what the runs of scrape_data do to the file in this code: it is the file
\* the behaviour began with, or that file truncated
FileNeverGrows == scraped_file \in InitialFiles

\* the dtypes of the table the last run of load_processed_tables got from
\* transform_data
LastDtypes == TblDtypes(ReadCsv(LastRead))

\* C14, as stated: in the table transform_data returns the metric value and
\* the rank are integers and every other column is text.
C14_Original ==
    dp_read # <<>> =>
        LET dtypes == LastDtypes
        IN  \A c \in DOMAIN dtypes :
                dtypes[c] = IF c \in {"Rank", "Values"} THEN "int64"
                            ELSE "object"

\* C14: in the table transform_data returns the metric value and the rank
\* are integers, the snapshot column Data As On is a datetime, which the
\* coercion to text leaves out, and every other column, the synthetic
\* identifier included, is text.
C14_IntegersDatetimeAndText ==
    dp_read # <<>> =>
        LET dtypes == LastDtypes
            tbl == LastTbl
        IN  /\ DOMAIN dtypes =
                   {"PokeID", "Rank", "Pokemon", "Type", "Metric", "Values",
                    "Icon", "DetailsLink", "DataAsOn"}
            /\ dtypes.Rank = "int64" /\ dtypes.Values = "int64"
            /\ dtypes.DataAsOn = "datetime64"
            /\ \A c \in DOMAIN dtypes \ {"Rank", "Values", "DataAsOn"} :
                   dtypes[c] = "object"
            /\ \A j \in 1..Len(tbl) :
                   /\ tbl[j].Values \in Int /\ tbl[j].Rank \in Int
                   /\ tbl[j].Type.kind = "str"

\* a run that wrote a table with rows
C14_Witness ==
    /\ dp_outcome = "ok"
    /\ dp_read # <<>>
    /\ \E j \in 1..Len(LastTbl) :
           LastTbl[j].Metric = "Attack" /\ LastTbl[j].Values = 114

\* C15, as stated: the extracted name of a row is its variant label when it
\* has one and its primary label otherwise, in the records of the legacy
\* scraper and in the name extract_pokemon_info computes.
C15_Original ==
    /\ \A k \in 1..Len(all_pokemons) :
           all_pokemons[k].pokemon_name =
               IF page[k].has_extra_name THEN <<page[k].extra_name>>
               ELSE <<page[k].common_name>>
    /\ \A k \in 1..Len(page) :
           page[k].has_name_link =>
               ExtractName(page[k]) =
                   IF page[k].has_extra_name THEN <<page[k].extra_name>>
                   ELSE <<page[k].common_name>>

\* C15: the extracted name of a row is its primary label when the row has
\* no variant label; when it has one, the name is the primary label with
\* the variant label put after it: joined by "-" in the records of the
\* legacy scraper, in parentheses in the name extract_pokemon_info computes.
C15_PrimaryWithVariant ==
    /\ \A k \in 1..Len(all_pokemons) :
           all_pokemons[k].pokemon_name =
               IF page[k].has_extra_name
               THEN <<page[k].common_name, "-", page[k].extra_name>>
               ELSE <<page[k].common_name>>
    /\ \A k \in 1..Len(page) :
           page[k].has_name_link =>
               ExtractName(page[k]) =
                   IF page[k].has_extra_name
                   THEN <<page[k].common_name, " (", page[k].extra_name, ")">>
                   ELSE <<page[k].common_name>>

\* the legacy scraper has gone through a row with a variant label and
\* through one without
C15_Witness ==
    /\ \E k \in 1..Len(all_pokemons) :
           all_pokemons[k].pokemon_name =
               <<"Charizard", "-", "Mega Charizard Y">>
    /\ \E k \in 1..Len(all_pokemons) :
           all_pokemons[k].pokemon_name = <<"Charmander">>

\* C16: transform_data leaves the table passed in by its caller unchanged:
\* after the call the table load_processed_tables read has the row index
\* and the column values it had before.
C16_Original ==
    scraped_df.called =>
        /\ scraped_df.after.rows = scraped_df.before.rows
        /\ scraped_df.after.index.dtype = scraped_df.before.index.dtype
        /\ scraped_df.after.index.labels = scraped_df.before.index.labels

\* the half of C16 about the column values
ColumnValuesKept ==
    scraped_df.called => scraped_df.after.rows = scraped_df.before.rows

====
